---- MODULE Spec2Model ----
(***************************************************************************)
(* A model of the two puzzle solvers of the repository:                    *)
(*                                                                         *)
(*   2021/01/day01.py  increases(measurements, window_size)                *)
(*   2021/02/day02.py  pilot(instructions, advanced)                       *)
(*                                                                         *)
(* Both are folds (functools.reduce) over a forward-only iterator.  Each   *)
(* fold is modelled one step at a time: the call, every application of     *)
(* the folded function and the return are separate actions, so that the    *)
(* accumulator is observable after every consumed element.                 *)
(*                                                                         *)
(* Text is modelled as sequences of one-character strings, so that         *)
(* str.split and int() are computed and not assumed.  A missing value      *)
(* (Python's None, "nothing returned") is the empty tuple <<>>, a present  *)
(* value v is <<v>>.                                                       *)
(***************************************************************************)
EXTENDS Integers, Sequences, FiniteSets, TLC

VARIABLES
    \* ---- day01: increases ----
    measurements,   \* the measurements handed to increases(), in iterator order
    window_size,    \* increases()'s window_size argument
    taken,          \* how many measurements reduce() has pulled from the iterator
    tally,          \* reduce()'s accumulator (increases, window); <<>> before the fold
    countState,     \* "ready" | "folding" | "returned" | "raised"
    countResult,    \* <<incr>> once returned, else <<>>
    countError,     \* the exception that ended the call, else NoError
    \* the sentinel-free variant of the fold, run beside it on the same input
    seen,           \* how many real measurements the variant has seen
    recent,         \* the variant's window: the last min(seen, window_size) measurements
    variantIncr,    \* the variant's increase counter
    \* ---- day02: pilot ----
    instructions,   \* the lines handed to pilot(), in iterator order
    advanced,       \* pilot()'s mode flag
    consumed,       \* how many lines reduce() has pulled from the iterator
    last,           \* reduce()'s accumulator: (horiz, depth) or (horiz, depth, aim)
    pilotState,     \* "ready" | "folding" | "returned" | "raised"
    pilotResult,    \* <<horiz * depth>> once returned, else <<>>
    pilotError      \* the exception that ended the call, else NoError

countVars == <<measurements, window_size, taken, tally, countState, countResult, countError,
               seen, recent, variantIncr>>

pilotVars == <<instructions, advanced, consumed, last, pilotState, pilotResult, pilotError>>

vars == <<countVars, pilotVars>>

(***************************************************************************)
(* Bounds of the model.                                                    *)
(***************************************************************************)
MaxCourse == 3          \* longest generated course (lines)

MaxMeasurements == 4    \* longest generated report (measurements)

MaxWindow == 3          \* largest window_size tried

(***************************************************************************)
(* Outcomes of a Python call: a returned value or a raised exception.      *)
(***************************************************************************)
NoError == [type |-> "", message |-> "", token |-> <<>>]

ValueError(message, token) == [type |-> "ValueError", message |-> message, token |-> token]

Returns(v) == [raised |-> FALSE, value |-> v, error |-> NoError]

Raises(e) == [raised |-> TRUE, value |-> <<>>, error |-> e]

(***************************************************************************)
(* day01.py: numbers.                                                      *)
(*                                                                         *)
(* The measurements are Python ints (main() reads them with int()), the    *)
(* sentinels are the float inf, and count() turns each window sum into a   *)
(* float by true division.  ints are unbounded and floats are IEEE-754     *)
(* doubles.  A non-negative int is modelled the way CPython holds it, as   *)
(* its digits in base 2^DigitBits (the 15-bit digit of CPython; the value  *)
(* does not depend on the digit size), least significant first and without *)
(* leading zeros; int / int is the correctly rounded quotient (round half  *)
(* to even on MantissaBits significant bits), which is what CPython        *)
(* computes.  Measurements are depths: negative ints are not generated.    *)
(***************************************************************************)
MantissaBits == 53

DigitBits == 15

Base == 2 ^ DigitBits

\* The digits of a natural number.
RECURSIVE Digits(_)
Digits(n) == IF n = 0 THEN <<>> ELSE <<n % Base>> \o Digits(n \div Base)

\* The int 2^k.
Pow2(k) ==
    [i \in 1..((k \div DigitBits) + 1) |->
        IF i = (k \div DigitBits) + 1 THEN 2 ^ (k % DigitBits) ELSE 0]

DigitAt(a, i) == IF i <= Len(a) THEN a[i] ELSE 0

RECURSIVE AddFrom(_, _, _, _)
AddFrom(a, b, i, carry) ==
    IF i > Len(a) /\ i > Len(b)
    THEN IF carry = 1 THEN <<1>> ELSE <<>>
    ELSE LET s == DigitAt(a, i) + DigitAt(b, i) + carry
         IN  <<s % Base>> \o AddFrom(a, b, i + 1, s \div Base)

\* int + int, exact.
IntAdd(a, b) == AddFrom(a, b, 1, 0)

\* int < int, exact.
IntLess(a, b) ==
    \/ Len(a) < Len(b)
    \/ /\ Len(a) = Len(b)
       /\ \E i \in 1..Len(a) :
             a[i] < b[i] /\ \A j \in (i + 1)..Len(a) : a[j] = b[j]

\* A number held in the window: an int, or the float inf.
PyInt(digits) == [inf |-> FALSE, digits |-> digits]

inf == [inf |-> TRUE, digits |-> <<>>]

\* A float that is the result of a division: inf, zero (mant = <<>>), or
\* mant * 2^exp with mant of exactly MantissaBits binary digits, most
\* significant first, the first of them 1.
FloatInf == [inf |-> TRUE, mant |-> <<>>, exp |-> 0]

Float(mant, exp) == [inf |-> FALSE, mant |-> mant, exp |-> exp]

\* sum(xs): the elements added from the left, starting from the int 0; a
\* float inf among them makes the sum the float inf.
RECURSIVE SumDigits(_, _)
SumDigits(xs, k) == IF k = 0 THEN <<>> ELSE IntAdd(SumDigits(xs, k - 1), xs[k].digits)

sum(xs) ==
    IF \E i \in 1..Len(xs) : xs[i].inf THEN inf ELSE PyInt(SumDigits(xs, Len(xs)))

\* Long division of the digits d (most significant first) by w < Base: the
\* digits of the quotient (as many as d has) and the remainder.
RECURSIVE LongDivide(_, _, _, _, _)
LongDivide(d, w, i, rem, q) ==
    IF i > Len(d) THEN <<q, rem>>
    ELSE LET r == rem * Base + d[i]
         IN  LongDivide(d, w, i + 1, r % w, Append(q, r \div w))

\* mant + 1 on binary digits most significant first; a carry out of the top
\* digit gives 1 followed by zeros, one digit longer.
Increment(mant) ==
    IF \A i \in 1..Len(mant) : mant[i] = 1
    THEN [i \in 1..(Len(mant) + 1) |-> IF i = 1 THEN 1 ELSE 0]
    ELSE LET z == CHOOSE k \in 1..Len(mant) :
                      mant[k] = 0 /\ \A j \in (k + 1)..Len(mant) : mant[j] = 1
         IN  [i \in 1..Len(mant) |-> IF i < z THEN mant[i] ELSE IF i = z THEN 1 ELSE 0]

\* int / int for a non-negative int and 1 <= w < Base: the double nearest to
\* the exact quotient, ties to the even mantissa.  The dividend is extended
\* by frac zero digits so that the quotient has more than MantissaBits + 1
\* significant bits; what is cut off decides the rounding.
RoundedQuotient(digits, w) ==
    IF digits = <<>> THEN Float(<<>>, 0)
    ELSE LET n      == Len(digits)
             need   == ((MantissaBits + 2) \div DigitBits) + 3
             frac   == IF need > n THEN need - n ELSE 0
             d      == [i \in 1..(n + frac) |-> IF i <= n THEN digits[n + 1 - i] ELSE 0]
             qr     == LongDivide(d, w, 1, 0, <<>>)
             q      == qr[1]
             bits   == DigitBits * Len(q)
             Bit(p) == (q[((p - 1) \div DigitBits) + 1]
                          \div (2 ^ (DigitBits - 1 - ((p - 1) % DigitBits)))) % 2
             lead   == CHOOSE k \in 1..Len(q) : q[k] # 0 /\ \A j \in 1..(k - 1) : q[j] = 0
             first  == CHOOSE p \in (DigitBits * (lead - 1) + 1)..(DigitBits * lead) :
                          /\ Bit(p) = 1
                          /\ \A j \in (DigitBits * (lead - 1) + 1)..(p - 1) : Bit(j) = 0
             kept   == [i \in 1..MantissaBits |-> Bit(first + i - 1)]
             guard  == Bit(first + MantissaBits)
             sticky == \/ qr[2] # 0
                       \/ \E j \in (first + MantissaBits + 1)..bits : Bit(j) = 1
             up     == guard = 1 /\ (sticky \/ kept[MantissaBits] = 1)
             mant   == IF up THEN Increment(kept) ELSE kept
             exp    == (bits - first + 1) - MantissaBits - DigitBits * frac
         IN  IF Len(mant) > MantissaBits
             THEN Float(SubSeq(mant, 1, MantissaBits), exp + 1)
             ELSE Float(mant, exp)

ZeroDivisionError == [type |-> "ZeroDivisionError", message |-> "division by zero", token |-> <<>>]

\* x / w for a window sum x; w is never negative where count() divides.
truediv(x, w) ==
    IF w = 0 THEN Raises(ZeroDivisionError)
    ELSE IF x.inf THEN Returns(FloatInf)
    ELSE Returns(RoundedQuotient(x.digits, w))

\* a > b on floats that are inf or not negative.
FloatGreater(a, b) ==
    IF b.inf THEN FALSE
    ELSE IF a.inf THEN TRUE
    ELSE IF a.mant = <<>> THEN FALSE
    ELSE IF b.mant = <<>> THEN TRUE
    ELSE \/ a.exp > b.exp
         \/ /\ a.exp = b.exp
            /\ \E i \in 1..MantissaBits :
                  a.mant[i] > b.mant[i] /\ \A j \in 1..(i - 1) : a.mant[j] = b.mant[j]

(***************************************************************************)
(* day01.py: increases().  The trace out() prints to stderr when verbose   *)
(* is set does not feed back into the fold and is not modelled.            *)
(***************************************************************************)
WindowSizeMessage == "Window size must be greater than zero"

\* The range check with "<" for "<=": zero passes.
InvalidWindowSize_negative(w) == w < 0

\* The range check of increases().
InvalidWindowSize(w) == w <= 0

\* [0] * window_size: a window seeded with zeros instead of infinities.
InitialWindow_zeros(w) == [i \in 1..w |-> PyInt(Digits(0))]

\* [inf] * window_size: the window reduce() starts from.
InitialWindow(w) == [i \in 1..w |-> inf]

\* count() that carries window[:-1] on: the newest element is dropped, not the oldest.
count_drops_newest(w, acc, measurement) ==
    LET increases == acc[1]
        window    == Append(acc[2], measurement)
        new       == truediv(sum(Tail(window)), w)
        old       == truediv(sum(SubSeq(window, 1, Len(window) - 1)), w)
    IN  IF new.raised THEN new
        ELSE IF FloatGreater(new.value, old.value)
             THEN Returns(<<increases + 1, SubSeq(window, 1, Len(window) - 1)>>)
             ELSE Returns(<<increases, SubSeq(window, 1, Len(window) - 1)>>)

\* count() that compares with ">=": an unchanged window counts as an increase.
count_or_equal(w, acc, measurement) ==
    LET increases == acc[1]
        window    == Append(acc[2], measurement)
        new       == truediv(sum(Tail(window)), w)
        old       == truediv(sum(SubSeq(window, 1, Len(window) - 1)), w)
    IN  IF new.raised THEN new
        ELSE IF ~FloatGreater(old.value, new.value)
             THEN Returns(<<increases + 1, Tail(window)>>)
             ELSE Returns(<<increases, Tail(window)>>)

\* count(last, measurement): the next (increases, window).
count(w, acc, measurement) ==
    LET increases == acc[1]
        window    == Append(acc[2], measurement)
        new       == truediv(sum(Tail(window)), w)
        old       == truediv(sum(SubSeq(window, 1, Len(window) - 1)), w)
    IN  IF new.raised THEN new
        ELSE IF FloatGreater(new.value, old.value)
             THEN Returns(<<increases + 1, Tail(window)>>)
             ELSE Returns(<<increases, Tail(window)>>)

\* The variant of count() the design notes allow: no sentinels; it counts the
\* real measurements seen and compares only once a full previous window of
\* real measurements exists.  acc is (increases, window, seen).
variant_count(w, acc, measurement) ==
    LET increases == acc[1]
        window    == Append(acc[2], measurement)
        known     == acc[3]
        new       == truediv(sum(Tail(window)), w)
        old       == truediv(sum(SubSeq(window, 1, Len(window) - 1)), w)
    IN  IF known < w
        THEN <<increases, window, known + 1>>
        ELSE IF FloatGreater(new.value, old.value)
             THEN <<increases + 1, Tail(window), known + 1>>
             ELSE <<increases, Tail(window), known + 1>>

(***************************************************************************)
(* The inputs of increases().                                              *)
(***************************************************************************)
Depths == { PyInt(Digits(0)), PyInt(Digits(1)), PyInt(Pow2(MantissaBits)),
            PyInt(IntAdd(Pow2(MantissaBits), Digits(1))) }

\* The report of the puzzle text.
ExampleReport ==
    << PyInt(Digits(199)), PyInt(Digits(200)), PyInt(Digits(208)), PyInt(Digits(210)),
       PyInt(Digits(200)), PyInt(Digits(207)), PyInt(Digits(240)), PyInt(Digits(269)),
       PyInt(Digits(260)), PyInt(Digits(263)) >>

Reports == UNION { [1..n -> Depths] : n \in 0..MaxMeasurements }

WindowSizes == {0 - 1, 0} \cup 1..MaxWindow

\* The window sizes the puzzle text works the example with.
ExampleWindowSizes == {1, 3}

(***************************************************************************)
(* increases() step by step.                                               *)
(***************************************************************************)
CountInit ==
    /\ \/ measurements \in Reports /\ window_size \in WindowSizes
       \/ measurements = ExampleReport /\ window_size \in ExampleWindowSizes
    /\ taken = 0
    /\ tally = <<>>
    /\ countState = "ready"
    /\ countResult = <<>>
    /\ countError = NoError
    /\ seen = 0
    /\ recent = <<>>
    /\ variantIncr = 0

\* increases() is entered with a window_size the range check refuses.
IncreasesRaise ==
    /\ countState = "ready"
    /\ InvalidWindowSize(window_size)
    /\ countState' = "raised"
    /\ countError' = ValueError(WindowSizeMessage, <<>>)
    /\ UNCHANGED <<measurements, window_size, taken, tally, countResult,
                   seen, recent, variantIncr>>
    /\ UNCHANGED pilotVars

\* increases() is entered and reduce() starts from (0, [inf] * window_size).
IncreasesCall ==
    /\ countState = "ready"
    /\ ~InvalidWindowSize(window_size)
    /\ countState' = "folding"
    /\ tally' = <<0, InitialWindow(window_size)>>
    /\ UNCHANGED <<measurements, window_size, taken, countResult, countError,
                   seen, recent, variantIncr>>
    /\ UNCHANGED pilotVars

\* reduce() pulls the next measurement and applies count() to it; the
\* variant takes the same measurement.
CountStep ==
    /\ countState = "folding"
    /\ taken < Len(measurements)
    /\ taken' = taken + 1
    /\ LET m == measurements[taken + 1]
           r == count(window_size, tally, m)
           v == variant_count(window_size, <<variantIncr, recent, seen>>, m)
       IN  IF r.raised
           THEN /\ countState' = "raised"
                /\ countError' = r.error
                /\ UNCHANGED <<tally, seen, recent, variantIncr>>
           ELSE /\ tally' = r.value
                /\ variantIncr' = v[1]
                /\ recent' = v[2]
                /\ seen' = v[3]
                /\ UNCHANGED <<countState, countError>>
    /\ UNCHANGED <<measurements, window_size, countResult>>
    /\ UNCHANGED pilotVars

\* The iterator is exhausted: increases() returns the counter.
IncreasesReturn ==
    /\ countState = "folding"
    /\ taken = Len(measurements)
    /\ countState' = "returned"
    /\ countResult' = <<tally[1]>>
    /\ UNCHANGED <<measurements, window_size, taken, tally, countError,
                   seen, recent, variantIncr>>
    /\ UNCHANGED pilotVars

CountNext == IncreasesRaise \/ IncreasesCall \/ CountStep \/ IncreasesReturn

(***************************************************************************)
(* day02.py                                                                *)
(***************************************************************************)
MOVE_UP == <<"u", "p">>

MOVE_DOWN == <<"d", "o", "w", "n">>

MOVE_FORWARD == <<"f", "o", "r", "w", "a", "r", "d">>

UnpackMessage == "not enough values to unpack (expected 2, got 1)"

IntMessage == "invalid literal for int() with base 10"

UnknownMessage == "Unknown pilot command"

DigitChars == {"0", "1", "2", "3", "4", "5", "6", "7", "8", "9"}

DigitValue(c) ==
    CASE c = "0" -> 0 [] c = "1" -> 1 [] c = "2" -> 2 [] c = "3" -> 3 [] c = "4" -> 4
      [] c = "5" -> 5 [] c = "6" -> 6 [] c = "7" -> 7 [] c = "8" -> 8 [] c = "9" -> 9

\* str.split(" ", 1): cut at the first space; one part when there is none.
split(s) ==
    IF \E i \in 1..Len(s) : s[i] = " "
    THEN LET i == CHOOSE k \in 1..Len(s) : s[k] = " " /\ \A j \in 1..(k - 1) : s[j] # " "
         IN  <<SubSeq(s, 1, i - 1), SubSeq(s, i + 1, Len(s))>>
    ELSE <<s>>

\* The whitespace int() drops on both sides (only the space is in the alphabet).
strip(s) ==
    IF \A i \in 1..Len(s) : s[i] = " "
    THEN <<>>
    ELSE LET lo == CHOOSE k \in 1..Len(s) : s[k] # " " /\ \A j \in 1..(k - 1) : s[j] = " "
             hi == CHOOSE k \in 1..Len(s) : s[k] # " " /\ \A j \in (k + 1)..Len(s) : s[j] = " "
         IN  SubSeq(s, lo, hi)

RECURSIVE DecimalValue(_)
DecimalValue(ds) ==
    IF ds = <<>> THEN 0
    ELSE 10 * DecimalValue(SubSeq(ds, 1, Len(ds) - 1)) + DigitValue(ds[Len(ds)])

\* int(text): surrounding whitespace dropped, an optional sign, then one or
\* more decimal digits; anything else raises ValueError.  (Digit-group
\* underscores and non-ASCII digits are outside the alphabet.)
int(text) ==
    LET t      == strip(text)
        signed == t # <<>> /\ t[1] \in {"+", "-"}
        digits == IF signed THEN Tail(t) ELSE t
        valid  == digits # <<>> /\ \A i \in 1..Len(digits) : digits[i] \in DigitChars
    IN  IF valid
        THEN Returns(IF signed /\ t[1] = "-" THEN 0 - DecimalValue(digits)
                     ELSE DecimalValue(digits))
        ELSE Raises(ValueError(IntMessage, text))

\* interpret() that refuses a negative number of units.
interpret_nonnegative(instruction) ==
    LET parts == split(instruction)
    IN  IF Len(parts) # 2
        THEN Raises(ValueError(UnpackMessage, <<>>))
        ELSE LET units == int(parts[2])
             IN  IF units.raised THEN units
                 ELSE IF units.value < 0 THEN Raises(ValueError(IntMessage, parts[2]))
                 ELSE Returns(<<parts[1], units.value>>)

\* interpret(instruction): (action, units), or the ValueError of the tuple
\* unpacking (no separator) or of int().
interpret(instruction) ==
    LET parts == split(instruction)
    IN  IF Len(parts) # 2
        THEN Raises(ValueError(UnpackMessage, <<>>))
        ELSE LET units == int(parts[2])
             IN  IF units.raised THEN units
                 ELSE Returns(<<parts[1], units.value>>)

\* process_simple with "up" and "down" exchanged (the submarine's inverted axis).
process_simple_swapped(acc, instruction) ==
    LET horiz == acc[1]
        depth == acc[2]
        i     == interpret(instruction)
    IN  IF i.raised THEN i
        ELSE LET action == i.value[1]
                 units  == i.value[2]
             IN  IF action = MOVE_UP THEN Returns(<<horiz, depth + units>>)
                 ELSE IF action = MOVE_DOWN THEN Returns(<<horiz, depth - units>>)
                 ELSE IF action = MOVE_FORWARD THEN Returns(<<horiz + units, depth>>)
                 ELSE Raises(ValueError(UnknownMessage, action))

\* process_simple with "depth = units" for "depth += units".
process_simple_assign(acc, instruction) ==
    LET horiz == acc[1]
        depth == acc[2]
        i     == interpret(instruction)
    IN  IF i.raised THEN i
        ELSE LET action == i.value[1]
                 units  == i.value[2]
             IN  IF action = MOVE_UP THEN Returns(<<horiz, depth - units>>)
                 ELSE IF action = MOVE_DOWN THEN Returns(<<horiz, units>>)
                 ELSE IF action = MOVE_FORWARD THEN Returns(<<horiz + units, depth>>)
                 ELSE Raises(ValueError(UnknownMessage, action))

process_simple(acc, instruction) ==
    LET horiz == acc[1]
        depth == acc[2]
        i     == interpret(instruction)
    IN  IF i.raised THEN i
        ELSE LET action == i.value[1]
                 units  == i.value[2]
             IN  IF action = MOVE_UP THEN Returns(<<horiz, depth - units>>)
                 ELSE IF action = MOVE_DOWN THEN Returns(<<horiz, depth + units>>)
                 ELSE IF action = MOVE_FORWARD THEN Returns(<<horiz + units, depth>>)
                 ELSE Raises(ValueError(UnknownMessage, action))

\* process_advanced in which "up" and "down" still move the depth, as in simple mode.
process_advanced_depth(acc, instruction) ==
    LET horiz == acc[1]
        depth == acc[2]
        aim   == acc[3]
        i     == interpret(instruction)
    IN  IF i.raised THEN i
        ELSE LET action == i.value[1]
                 units  == i.value[2]
             IN  IF action = MOVE_UP THEN Returns(<<horiz, depth - units, aim - units>>)
                 ELSE IF action = MOVE_DOWN THEN Returns(<<horiz, depth + units, aim + units>>)
                 ELSE IF action = MOVE_FORWARD
                      THEN Returns(<<horiz + units, depth + units * aim, aim>>)
                 ELSE Raises(ValueError(UnknownMessage, action))

\* process_advanced that skips a line it does not know instead of raising.
process_advanced_skip(acc, instruction) ==
    LET horiz == acc[1]
        depth == acc[2]
        aim   == acc[3]
        i     == interpret(instruction)
    IN  IF i.raised THEN i
        ELSE LET action == i.value[1]
                 units  == i.value[2]
             IN  IF action = MOVE_UP THEN Returns(<<horiz, depth, aim - units>>)
                 ELSE IF action = MOVE_DOWN THEN Returns(<<horiz, depth, aim + units>>)
                 ELSE IF action = MOVE_FORWARD
                      THEN Returns(<<horiz + units, depth + units * aim, aim>>)
                 ELSE Returns(acc)

process_advanced(acc, instruction) ==
    LET horiz == acc[1]
        depth == acc[2]
        aim   == acc[3]
        i     == interpret(instruction)
    IN  IF i.raised THEN i
        ELSE LET action == i.value[1]
                 units  == i.value[2]
             IN  IF action = MOVE_UP THEN Returns(<<horiz, depth, aim - units>>)
                 ELSE IF action = MOVE_DOWN THEN Returns(<<horiz, depth, aim + units>>)
                 ELSE IF action = MOVE_FORWARD
                      THEN Returns(<<horiz + units, depth + units * aim, aim>>)
                 ELSE Raises(ValueError(UnknownMessage, action))

\* The function and the initializer pilot() hands to reduce().
process(adv, acc, instruction) ==
    IF adv THEN process_advanced(acc, instruction) ELSE process_simple(acc, instruction)

initializer(adv) == IF adv THEN <<0, 0, 0>> ELSE <<0, 0>>

\* pilot() as a whole: the fold from position k with accumulator acc, then
\* horiz * depth; the first exception ends it.
RECURSIVE pilotFrom(_, _, _, _)
pilotFrom(lines, adv, k, acc) ==
    IF k > Len(lines) THEN Returns(acc[1] * acc[2])
    ELSE LET r == process(adv, acc, lines[k])
         IN  IF r.raised THEN r ELSE pilotFrom(lines, adv, k + 1, r.value)

pilot(lines, adv) == pilotFrom(lines, adv, 1, initializer(adv))

(***************************************************************************)
(* The inputs of pilot().  A line is built from a direction token and a    *)
(* magnitude token, or from a direction token alone.                       *)
(***************************************************************************)
LEFT == <<"l", "e", "f", "t">>

GeneratedShapes ==
    { <<MOVE_UP, <<"2">>>>, <<MOVE_DOWN, <<"3">>>>, <<MOVE_FORWARD, <<"2">>>>,
      <<MOVE_FORWARD, <<"-", "3">>>>, <<MOVE_DOWN, <<"-", "1">>>>,
      <<LEFT, <<"3">>>>, <<MOVE_UP, <<"x">>>>, <<LEFT, <<"x">>>>, <<LEFT>> }

\* The course of the puzzle text: forward 5, down 5, forward 8, up 3, down 8, forward 2.
ExampleShapes ==
    << <<MOVE_FORWARD, <<"5">>>>, <<MOVE_DOWN, <<"5">>>>, <<MOVE_FORWARD, <<"8">>>>,
       <<MOVE_UP, <<"3">>>>, <<MOVE_DOWN, <<"8">>>>, <<MOVE_FORWARD, <<"2">>>> >>

Shapes == GeneratedShapes \cup { ExampleShapes[i] : i \in 1..Len(ExampleShapes) }

Render(shape) == IF Len(shape) = 1 THEN shape[1] ELSE shape[1] \o <<" ">> \o shape[2]

GeneratedLines == { Render(s) : s \in GeneratedShapes }

ExampleCourse == [i \in 1..Len(ExampleShapes) |-> Render(ExampleShapes[i])]

Courses == UNION { [1..n -> GeneratedLines] : n \in 0..MaxCourse }

(***************************************************************************)
(* pilot() step by step.                                                   *)
(***************************************************************************)
PilotInit ==
    /\ instructions \in Courses \cup {ExampleCourse}
    /\ advanced \in BOOLEAN
    /\ consumed = 0
    /\ last = <<>>
    /\ pilotState = "ready"
    /\ pilotResult = <<>>
    /\ pilotError = NoError

\* pilot() is entered: reduce() starts from the mode's initializer.
PilotCall ==
    /\ pilotState = "ready"
    /\ pilotState' = "folding"
    /\ last' = initializer(advanced)
    /\ UNCHANGED <<instructions, advanced, consumed, pilotResult, pilotError>>
    /\ UNCHANGED countVars

\* reduce() pulls the next line and applies the mode's function to it.
PilotStep ==
    /\ pilotState = "folding"
    /\ consumed < Len(instructions)
    /\ consumed' = consumed + 1
    /\ LET r == process(advanced, last, instructions[consumed + 1])
       IN  IF r.raised
           THEN /\ pilotState' = "raised"
                /\ pilotError' = r.error
                /\ UNCHANGED last
           ELSE /\ last' = r.value
                /\ UNCHANGED <<pilotState, pilotError>>
    /\ UNCHANGED <<instructions, advanced, pilotResult>>
    /\ UNCHANGED countVars

\* The iterator is exhausted: pilot() returns horiz * depth.
PilotReturn ==
    /\ pilotState = "folding"
    /\ consumed = Len(instructions)
    /\ pilotState' = "returned"
    /\ pilotResult' = <<last[1] * last[2]>>
    /\ UNCHANGED <<instructions, advanced, consumed, last, pilotError>>
    /\ UNCHANGED countVars

PilotNext == PilotCall \/ PilotStep \/ PilotReturn

(***************************************************************************)
(* The two programs share nothing: a run is a call of one of them, with    *)
(* the other one's variables at rest.                                      *)
(***************************************************************************)
CountIdle ==
    /\ measurements = <<>>
    /\ window_size = 1
    /\ taken = 0
    /\ tally = <<>>
    /\ countState = "idle"
    /\ countResult = <<>>
    /\ countError = NoError
    /\ seen = 0
    /\ recent = <<>>
    /\ variantIncr = 0

PilotIdle ==
    /\ instructions = <<>>
    /\ advanced = FALSE
    /\ consumed = 0
    /\ last = <<>>
    /\ pilotState = "idle"
    /\ pilotResult = <<>>
    /\ pilotError = NoError

IncreasesInit == CountInit /\ PilotIdle

SpecIncreases == IncreasesInit /\ [][CountNext]_vars

DiveInit == PilotInit /\ CountIdle

SpecPilot == DiveInit /\ [][PilotNext]_vars

Init == IncreasesInit \/ DiveInit

Next == CountNext \/ PilotNext

Spec == Init /\ [][Next]_vars

(***************************************************************************)
(* What the claims about increases() are stated with: window sums as       *)
(* exact integers.                                                         *)
(***************************************************************************)
\* m[a] + ... + m[b], exact.
WindowSum(m, a, b) == SumDigits(SubSeq(m, a, b), b - a + 1)

\* The positions whose window sum is strictly greater than the sum of the
\* window one position earlier (positions from 1: the window ending at i
\* against the window ending at i - 1, both of w real measurements).
ExactIncreases(m, w) ==
    Cardinality({ i \in (w + 1)..Len(m) :
                    IntLess(WindowSum(m, i - w, i - 1), WindowSum(m, i - w + 1, i)) })

\* Every measurement is below 2^(MantissaBits - 4).
SmallReport(m) == \A i \in 1..Len(m) : IntLess(m[i].digits, Pow2(MantissaBits - 4))

\* C1: increases() returns the number of positions whose window sum is
\* strictly greater than the previous window sum, for every report of ints
\* and every window_size >= 1; the example report gives 7 for window_size 1
\* and 5 for window_size 3.
C1_CountsWindowSumIncreases ==
    countState = "returned" =>
        /\ countResult = <<ExactIncreases(measurements, window_size)>>
        /\ (measurements = ExampleReport /\ window_size = 1) => countResult = <<7>>
        /\ (measurements = ExampleReport /\ window_size = 3) => countResult = <<5>>

\* What does hold of the count: it is exact when the measurements are small
\* enough for the quotients to be told apart as doubles, and the example
\* report gives 7 and 5.
CountExactForSmallReports ==
    (countState = "returned" /\ SmallReport(measurements)) =>
        /\ countResult = <<ExactIncreases(measurements, window_size)>>
        /\ (measurements = ExampleReport /\ window_size = 1) => countResult = <<7>>
        /\ (measurements = ExampleReport /\ window_size = 3) => countResult = <<5>>

\* C4: with window_size <= 0 increases() never starts the fold and never
\* returns a count: no measurement is taken from the iterator, and the call
\* ends in the ValueError "Window size must be greater than zero".
C4_InvalidWindowSize ==
    window_size <= 0 =>
        /\ countState \in {"ready", "raised"}
        /\ countResult = <<>>
        /\ taken = 0
        /\ tally = <<>>
        /\ countState = "raised" => countError = ValueError(WindowSizeMessage, <<>>)
        /\ countState = "ready" => ENABLED IncreasesRaise /\ ~ENABLED IncreasesCall

C4_Witness ==
    /\ countState = "raised"
    /\ window_size < 0
    /\ Len(measurements) > 0
    /\ taken = 0

\* C8: the counter is still 0 after each of the first window_size
\* measurements, whatever their values; a report of fewer than window_size
\* measurements returns 0.
C8_SentinelComparisonsNeverCount ==
    countState \in {"folding", "returned"} =>
        /\ taken <= window_size => tally[1] = 0
        /\ (countState = "returned" /\ Len(measurements) < window_size) =>
              countResult = <<0>>

C8_Witness ==
    /\ countState = "folding"
    /\ window_size >= 2
    /\ taken = window_size
    /\ IntLess(measurements[1].digits, measurements[2].digits)
    /\ tally[1] = 0

\* C9: in every state of the fold the carried window has exactly
\* window_size elements: after k measurements, max(0, window_size - k)
\* sentinels followed by the last min(k, window_size) measurements in
\* arrival order.
C9_WindowIsFifo ==
    countState \in {"folding", "returned"} =>
        /\ Len(tally[2]) = window_size
        /\ tally[2] = [i \in 1..window_size |->
                         IF i <= window_size - taken THEN inf
                         ELSE measurements[taken - window_size + i]]

C9_Witness ==
    /\ countState = "folding"
    /\ window_size >= 2
    /\ taken > window_size
    /\ tally[2][1] # tally[2][2]

\* C10: the sentinel-seeded fold and the variant that counts the real
\* measurements it has seen keep equal increase counters after every
\* measurement, and the returned count is the variant's.
C10_VariantAgrees ==
    countState \in {"folding", "returned"} =>
        /\ seen = taken
        /\ tally[1] = variantIncr
        /\ countState = "returned" => countResult = <<variantIncr>>

C10_Witness ==
    /\ countState = "returned"
    /\ window_size >= 2
    /\ Len(measurements) > window_size
    /\ countResult # <<0>>
    /\ countResult = <<variantIncr>>

(***************************************************************************)
(* What the claims about pilot() are stated with: what each line of the    *)
(* inputs means, tabulated independently of interpret(), and the position  *)
(* a prefix of the course leads to, computed from that as sums, not by     *)
(* folding.                                                                *)
(***************************************************************************)
ShapeOf(line) == CHOOSE s \in Shapes : Render(s) = line

\* "up" | "down" | "forward" | "?" : the direction a line names.
DirectionOf(line) ==
    LET tok == ShapeOf(line)[1]
    IN  CASE tok = <<"u", "p">> -> "up"
          [] tok = <<"d", "o", "w", "n">> -> "down"
          [] tok = <<"f", "o", "r", "w", "a", "r", "d">> -> "forward"
          [] OTHER -> "?"

HasMagnitude(line) == Len(ShapeOf(line)) = 2

\* The integer a magnitude token denotes; <<>> when it denotes none.
MagnitudeOf(line) ==
    LET tok == ShapeOf(line)[2]
    IN  CASE tok = <<"2">> -> <<2>>
          [] tok = <<"3">> -> <<3>>
          [] tok = <<"5">> -> <<5>>
          [] tok = <<"8">> -> <<8>>
          [] tok = <<"-", "1">> -> <<0 - 1>>
          [] tok = <<"-", "3">> -> <<0 - 3>>
          [] OTHER -> <<>>

IntegerMagnitude(line) == HasMagnitude(line) /\ MagnitudeOf(line) # <<>>

Recognised(line) == DirectionOf(line) # "?"

WellFormed(line) == Recognised(line) /\ IntegerMagnitude(line)

\* Lines the fold has applied to its accumulator (a raising line is consumed, not applied).
Applied == IF pilotState = "raised" THEN consumed - 1 ELSE consumed

PrefixWellFormed(lines, k) == \A i \in 1..k : WellFormed(lines[i])

RECURSIVE Total(_, _, _)
Total(lines, k, dir) ==
    IF k = 0 THEN 0
    ELSE Total(lines, k - 1, dir)
         + (IF DirectionOf(lines[k]) = dir THEN MagnitudeOf(lines[k])[1] ELSE 0)

AimAfter(lines, k) == Total(lines, k, "down") - Total(lines, k, "up")

RECURSIVE AimedDepth(_, _)
AimedDepth(lines, k) ==
    IF k = 0 THEN 0
    ELSE AimedDepth(lines, k - 1)
         + (IF DirectionOf(lines[k]) = "forward"
            THEN MagnitudeOf(lines[k])[1] * AimAfter(lines, k - 1) ELSE 0)

SimplePosition(lines, k) == <<Total(lines, k, "forward"), AimAfter(lines, k)>>

AdvancedPosition(lines, k) ==
    <<Total(lines, k, "forward"), AimedDepth(lines, k), AimAfter(lines, k)>>

Position(adv, lines, k) ==
    IF adv THEN AdvancedPosition(lines, k) ELSE SimplePosition(lines, k)

Reorderings(lines) ==
    { [i \in 1..Len(lines) |-> lines[p[i]]] : p \in Permutations(1..Len(lines)) }

\* C2: in simple mode a course of well-formed instructions never raises; after
\* k of them the accumulator is (sum of forward, sum of down - sum of up) of
\* those k, starting from (0, 0); the returned value is the product of the two
\* over the whole course; the example course ends at (15, 10) and returns 150.
C2_SimpleMode ==
    (~advanced /\ PrefixWellFormed(instructions, consumed)) =>
        /\ pilotState # "raised"
        /\ pilotState \in {"folding", "returned"} =>
               last = SimplePosition(instructions, consumed)
        /\ pilotState = "returned" =>
               /\ consumed = Len(instructions)
               /\ pilotResult = <<Total(instructions, consumed, "forward")
                                   * (Total(instructions, consumed, "down")
                                      - Total(instructions, consumed, "up"))>>
        /\ (pilotState = "returned" /\ instructions = ExampleCourse) =>
               last = <<15, 10>> /\ pilotResult = <<150>>

C2_Witness ==
    /\ ~advanced
    /\ pilotState = "returned"
    /\ PrefixWellFormed(instructions, consumed)
    /\ \A d \in {"up", "down", "forward"} :
           \E i \in 1..Len(instructions) : DirectionOf(instructions[i]) = d
    /\ pilotResult # <<0>>

\* C3: in advanced mode a course of well-formed instructions never raises; the
\* accumulator starts at (0, 0, 0); after k instructions aim is the sum of down
\* minus the sum of up, horiz the sum of forward, and depth the sum over the
\* forward instructions of units times the aim reached before them; the
\* returned value is horiz * depth; the example course ends at horiz 15,
\* depth 60 and returns 900.
C3_AdvancedMode ==
    (advanced /\ PrefixWellFormed(instructions, consumed)) =>
        /\ pilotState # "raised"
        /\ pilotState \in {"folding", "returned"} =>
               last = AdvancedPosition(instructions, consumed)
        /\ pilotState = "returned" =>
               /\ consumed = Len(instructions)
               /\ pilotResult = <<Total(instructions, consumed, "forward")
                                   * AimedDepth(instructions, consumed)>>
        /\ (pilotState = "returned" /\ instructions = ExampleCourse) =>
               last[1] = 15 /\ last[2] = 60 /\ pilotResult = <<900>>

C3_Witness ==
    /\ advanced
    /\ pilotState = "returned"
    /\ PrefixWellFormed(instructions, consumed)
    /\ \A d \in {"up", "down", "forward"} :
           \E i \in 1..Len(instructions) : DirectionOf(instructions[i]) = d
    /\ pilotResult # <<0>>
    /\ last[3] # 0

\* The first line of the course whose direction is not up, down or forward.
FirstUnknown(lines) ==
    CHOOSE i \in 1..Len(lines) :
        ~Recognised(lines[i]) /\ \A j \in 1..(i - 1) : Recognised(lines[j])

HasUnknown(lines) == \E i \in 1..Len(lines) : ~Recognised(lines[i])

\* C5 as stated: in either mode, when the course holds a line whose direction
\* token is not up, down or forward, pilot() returns no product and consumes
\* no line after the first such line; with the lines before it well-formed,
\* the fold raises exactly there (the line is not skipped) with the lines
\* before it applied in order, and the error names the direction token of
\* the line (a line of a direction and a magnitude token).
C5_UnknownDirectionNamed ==
    HasUnknown(instructions) =>
        LET b == FirstUnknown(instructions)
        IN  /\ pilotState # "returned"
            /\ pilotResult = <<>>
            /\ consumed <= b
            /\ PrefixWellFormed(instructions, b - 1) =>
                  /\ consumed = b <=> pilotState = "raised"
                  /\ pilotState = "raised" =>
                        /\ last = Position(advanced, instructions, b - 1)
                        /\ pilotError.type = "ValueError"
                        /\ HasMagnitude(instructions[b]) =>
                              pilotError = ValueError(UnknownMessage,
                                                      ShapeOf(instructions[b])[1])

\* C5, amended: as stated, except for the error of a line that has no integer
\* magnitude either: interpret() raises before the direction is looked at,
\* the ValueError of int() naming the magnitude text, or the ValueError of the
\* unpacking when the line has no magnitude at all.  The direction token is
\* named when the magnitude of the line is an integer.
C5_UnknownDirection ==
    HasUnknown(instructions) =>
        LET b == FirstUnknown(instructions)
        IN  /\ pilotState # "returned"
            /\ pilotResult = <<>>
            /\ consumed <= b
            /\ PrefixWellFormed(instructions, b - 1) =>
                  /\ consumed = b <=> pilotState = "raised"
                  /\ pilotState = "raised" =>
                        /\ last = Position(advanced, instructions, b - 1)
                        /\ pilotError =
                             IF ~HasMagnitude(instructions[b])
                             THEN ValueError(UnpackMessage, <<>>)
                             ELSE IF ~IntegerMagnitude(instructions[b])
                             THEN ValueError(IntMessage, ShapeOf(instructions[b])[2])
                             ELSE ValueError(UnknownMessage, ShapeOf(instructions[b])[1])

C5_Witness ==
    /\ pilotState = "raised"
    /\ pilotError.message = UnknownMessage
    /\ pilotError.token = LEFT
    /\ consumed >= 2
    /\ consumed < Len(instructions)
    /\ last # initializer(advanced)

C7_OrderDependentInBothModes ==
    pilotState = "returned" =>
        \E s \in Courses : \E t \in Reorderings(s) :
            /\ ~pilot(s, advanced).raised
            /\ ~pilot(t, advanced).raised
            /\ pilot(s, advanced).value # pilot(t, advanced).value

\* C7, amended: the fold is order-dependent in advanced mode only.  In simple
\* mode every reordering of a course that returned returns the same product;
\* in advanced mode "down 3, forward 2" and "forward 2, down 3" return
\* different products.
C7_OrderDependentInAdvancedModeOnly ==
    /\ (pilotState = "returned" /\ ~advanced) =>
          \A t \in Reorderings(instructions) : pilot(t, FALSE) = Returns(pilotResult[1])
    /\ LET down3    == Render(<<MOVE_DOWN, <<"3">>>>)
           forward2 == Render(<<MOVE_FORWARD, <<"2">>>>)
       IN  /\ pilot(<<down3, forward2>>, TRUE) = Returns(12)
           /\ pilot(<<forward2, down3>>, TRUE) = Returns(0)

C7_Witness ==
    /\ pilotState = "returned"
    /\ ~advanced
    /\ Len(instructions) >= 3
    /\ \E i, j \in 1..Len(instructions) :
           DirectionOf(instructions[i]) # DirectionOf(instructions[j])
    /\ pilotResult # <<0>>

====
